---- MODULE Spec2Model ----
\* Spelling algebra of librime (src/rime/algo/algebra.cc):
\*   Script::AddSyllable, Script::Merge, Projection::Load,
\*   Projection::Apply on a string and the OpenMP Projection::Apply on a Script.
EXTENDS Integers, Sequences, FiniteSets, TLC

VARIABLES
  script,          \* the Script (map<string, vector<Spelling>>) the caller owns
  calculation_,    \* Projection::calculation_, the compiled rules in order
  ret,             \* the value returned by the last finished call, "none" before
  call,            \* the call in progress or last finished, with its arguments
  phase,           \* position of the call in progress
  \* Projection::Apply(string*)
  text,            \* the caller's string *value
  cand,            \* the str of the local Spelling s
  pos,             \* the number of rules of calculation_ already applied
  modified,        \* the local flag of both Apply overloads
  \* Projection::Apply(Script*)
  round,
  indexed_value,
  value_keys,
  new_value,
  new_value_keys,
  applied_spelling_cache,
  claimed,         \* phase 1: the iterations of the parallel for already run
  taken,           \* phase 1: the last iteration each thread ran
  tid,             \* phase 3: the loop variable of the outer loop
  unit,            \* phase 3: where each iteration of the inner parallel for is
  anchors,         \* the shards of the static anchors[] that are set
  copy_shares,     \* whether a copy of an omp_lock_t is the same lock
  \* history
  thrown,          \* an x->Apply of the call in progress has thrown
  any_applied,     \* an x->Apply of the call in progress has returned true
  evaluated,       \* the strings x->Apply was called with in this round
  trace,           \* Apply(string*): what each rule was given and what it left
  \* one entry vs[xs] of a map<string, SpellingProperties> and what lands on it
  operands,        \* the properties that land on the entry
  folded,          \* the operands that have landed
  target           \* the map, with the entry once an operand has landed

textVars == <<text, cand, pos>>
roundVars == <<round, indexed_value, value_keys, new_value, new_value_keys,
               applied_spelling_cache, claimed, taken, tid, unit, anchors>>
histVars == <<thrown, any_applied, evaluated, trace>>
applyVars == <<modified, roundVars, copy_shares, histVars>>

foldVars == <<operands, folded, target>>

vars == <<script, calculation_, ret, call, phase, textVars, applyVars, foldVars>>

----------------------------------------------------------------------------
\* Bounds of the model

MaxType == 1      \* the types of a Spelling are 0..MaxType
MaxCred == 1      \* the credibility a caller passes is 0..MaxCred
MaxOps == 2       \* calls made on a Script or a Projection
MaxFormulas == 2  \* items of a settings list
MaxRules == 2     \* rules of the pipeline Apply(string*) runs
MaxLoad == 3      \* rows of the Script plus rules of the pipeline, Apply(Script*)
NumThreads == 2   \* omp_get_max_threads()

\* Strings.  std::map<string, ...> iterates in lexicographic order.
Syllables == {"a", "b"}
Strings == {""} \cup Syllables
Rank(s) == CASE s = "" -> 0 [] s = "a" -> 1 [] s = "b" -> 2 [] OTHER -> 3

Types == 0..MaxType
Tips == {"", "t"}

SpellingProperties == [type : Types, credibility : 0..MaxCred, tips : Tips]

DefaultProperties == [type |-> 0, credibility |-> 0, tips |-> ""]

Spelling(str) == [str |-> str, properties |-> DefaultProperties]

----------------------------------------------------------------------------
\* Script::AddSyllable

AddSyllableNoPush(m, syllable) == (syllable :> <<>>) @@ m

AddSyllableInsert(m, syllable) == (syllable :> <<Spelling(syllable)>>) @@ m

AddSyllable(syllable) ==
  /\ phase = "idle"
  /\ call.n < MaxOps
  /\ call' = [op |-> "AddSyllable", name |-> syllable, before |-> script,
              n |-> call.n + 1]
  /\ IF syllable \in DOMAIN script
       THEN /\ ret' = "false"
            /\ UNCHANGED script
       ELSE /\ script' = AddSyllableInsert(script, syllable)
            /\ ret' = "true"
  /\ UNCHANGED <<foldVars, calculation_, phase, textVars, applyVars>>

----------------------------------------------------------------------------
\* Script::Merge

MergeAccumulateMax(sp, yy) ==
  [type        |-> IF sp.type > yy.type THEN sp.type ELSE yy.type,
   credibility |-> IF sp.credibility > yy.credibility
                     THEN sp.credibility ELSE yy.credibility,
   tips        |-> IF sp.tips # "" THEN sp.tips ELSE yy.tips]

\* lines 35-39: the properties sp are accumulated into the copy y of x
MergeAccumulate(sp, yy) ==
  [type        |-> IF sp.type > yy.type THEN sp.type ELSE yy.type,
   credibility |-> yy.credibility + sp.credibility,
   tips        |-> IF sp.tips # "" THEN sp.tips ELSE yy.tips]

\* lines 45-50: y collides with the entry zz already in the vector
MergeCollide(yy, zz) ==
  [type        |-> IF yy.type < zz.type THEN yy.type ELSE zz.type,
   credibility |-> IF yy.credibility > zz.credibility
                     THEN yy.credibility ELSE zz.credibility,
   tips        |-> ""]

\* a find that never matches
FindSpellingNone(m, x) == 0

\* std::find(m.begin(), m.end(), x): Spelling::operator== compares str only.
\* The index of the first match, 0 for m.end().
FindSpelling(m, x) ==
  LET hits == {i \in 1..Len(m) : m[i].str = x.str}
  IN  IF hits = {} THEN 0 ELSE CHOOSE i \in hits : \A j \in hits : i <= j

MergeOne(m, sp, x) ==
  LET y == [str |-> x.str, properties |-> MergeAccumulate(sp, x.properties)]
      e == FindSpelling(m, x)
  IN  IF e = 0
        THEN Append(m, y)
        ELSE [m EXCEPT ![e].properties = MergeCollide(y.properties, @)]

RECURSIVE MergeVec(_, _, _)
MergeVec(m, sp, v) ==
  IF v = <<>> THEN m
  ELSE MergeVec(MergeOne(m, sp, Head(v)), sp, Tail(v))

ScriptAt(m, s) == IF s \in DOMAIN m THEN m[s] ELSE <<>>

Merge(s, sp, v) ==
  /\ phase = "idle"
  /\ call.n < MaxOps
  /\ call' = [op |-> "Merge", name |-> s, sp |-> sp, v |-> v, before |-> script,
              n |-> call.n + 1]
  /\ script' = (s :> MergeVec(ScriptAt(script, s), sp, v)) @@ script
  /\ ret' = "none"
  /\ UNCHANGED <<foldVars, calculation_, phase, textVars, applyVars>>

----------------------------------------------------------------------------
\* Projection::Load

\* The formulas of a settings list.  Calculus::Parse (rime/algo/calculus.cc)
\* returns a compiled Calculation, returns null, or throws boost::regex_error.
\* A compiled Calculation answers deletion() and addition().
GoodFormulas == {"xform", "derive", "erase", "keep", "fuzz"}
Formulas == GoodFormulas \cup {"bad", "rx("}
\* a list item that is not a scalar: ConfigList::GetValueAt returns null
NotAValue == "#list"
Items == Formulas \cup {NotAValue}

\* what a fuzzy rule leaves in the properties of the Spelling it rewrites
FuzzyProperties == [type |-> 1, credibility |-> 1, tips |-> "t"]

Compile(formula) ==
  [formula    |-> formula,
   deletion   |-> formula \in {"xform", "erase"},
   addition   |-> formula \in {"xform", "derive", "fuzz"},
   properties |-> IF formula = "fuzz" THEN FuzzyProperties ELSE DefaultProperties]

\* "null" for a null Calculation, "regex_error" for the exception
Parse(formula) ==
  IF formula \in GoodFormulas THEN "rule"
  ELSE IF formula = "rx(" THEN "regex_error" ELSE "null"

Calculations == {Compile(f) : f \in GoodFormulas}

\* lines 75-96: the loop from item i on, acc the rules pushed so far
RECURSIVE LoadLoop(_, _, _)
LoadLoop(settings, i, acc) ==
  IF i > Len(settings) THEN [success |-> TRUE, rules |-> acc]
  ELSE IF settings[i] = NotAValue
         THEN [success |-> FALSE, rules |-> acc]        \* lines 77-81
  ELSE IF Parse(settings[i]) # "rule"
         THEN [success |-> FALSE, rules |-> acc]        \* lines 84-94
  ELSE LoadLoop(settings, i + 1, Append(acc, Compile(settings[i])))

\* lines 97-99: a failed load clears what the loop pushed
LoadResult(r) == IF ~r.success THEN <<>> ELSE r.rules

Load(settings) ==
  /\ phase = "idle"
  /\ call.n < MaxOps
  /\ call' = [op |-> "Load", settings |-> settings, before |-> calculation_,
              n |-> call.n + 1]
  /\ IF settings.null
       THEN /\ ret' = "false"                           \* lines 70-71
            /\ UNCHANGED calculation_
       ELSE LET r == LoadLoop(settings.items, 1, <<>>)  \* line 72: cleared first
            IN  /\ calculation_' = LoadResult(r)
                /\ ret' = IF r.success THEN "true" ELSE "false"
  /\ UNCHANGED <<foldVars, script, phase, textVars, applyVars>>

----------------------------------------------------------------------------
\* Projection::Apply(string*), lines 103-120

NoUnits == [u \in {} |-> 0]
NoScript == [k \in {} |-> <<>>]
NoEntries == [t \in {} |-> DefaultProperties]
NoIndex == [k \in {} |-> NoEntries]

TextOnErrorPartial(value, c) == c

\* lines 112-115: the catch returns without assigning to *value
TextOnError(value, c) == value

ApplyTextBegin(isnull, v) ==
  /\ phase = "idle"
  /\ call.n < MaxOps
  /\ call' = [op |-> "ApplyText", null |-> isnull, value |-> v, n |-> call.n + 1]
  /\ text' = v
  /\ thrown' = FALSE /\ any_applied' = FALSE /\ trace' = <<>>
  /\ IF isnull \/ v = ""
       THEN /\ ret' = "false"                           \* lines 104-105
            /\ UNCHANGED <<phase, cand, pos, modified>>
       ELSE /\ ret' = "none"
            /\ phase' = "text"
            /\ modified' = FALSE
            /\ cand' = v
            /\ pos' = 0
  /\ UNCHANGED <<foldVars, script, calculation_, roundVars, copy_shares, evaluated>>

\* one iteration of the loop of lines 108-116; what x->Apply(&s) does is the
\* rule's: it throws, returns false, or rewrites s.str and returns true
ApplyTextRule ==
  /\ phase = "text"
  /\ pos < Len(calculation_)
  /\ \/ /\ thrown' = TRUE
        /\ trace' = Append(trace, [in |-> cand, applied |-> FALSE, out |-> cand])
        /\ text' = TextOnError(text, cand)
        /\ ret' = "false"
        /\ phase' = "idle"
        /\ UNCHANGED <<cand, pos, modified, any_applied>>
     \/ /\ trace' = Append(trace, [in |-> cand, applied |-> FALSE, out |-> cand])
        /\ pos' = pos + 1
        /\ UNCHANGED <<text, cand, modified, any_applied, thrown, ret, phase>>
     \/ \E str \in Strings :
        /\ trace' = Append(trace, [in |-> cand, applied |-> TRUE, out |-> str])
        /\ cand' = str
        /\ modified' = TRUE
        /\ any_applied' = TRUE
        /\ pos' = pos + 1
        /\ UNCHANGED <<text, thrown, ret, phase>>
  /\ UNCHANGED <<foldVars, script, calculation_, call, roundVars, copy_shares, evaluated>>

\* lines 117-119
ApplyTextEnd ==
  /\ phase = "text"
  /\ pos = Len(calculation_)
  /\ text' = IF modified THEN cand ELSE text
  /\ ret' = IF modified THEN "true" ELSE "false"
  /\ phase' = "idle"
  /\ UNCHANGED <<foldVars, script, calculation_, call, cand, pos, modified, roundVars,
                 copy_shares, histVars>>

----------------------------------------------------------------------------
\* Projection::Apply(Script*), lines 137-329

NumShards == 1024      \* static omp_lock_t anchors[1024]

Range(q) == {q[j] : j \in 1..Len(q)}

Put(m, key, val) == [y \in DOMAIN m \cup {key} |-> IF y = key THEN val ELSE m[y]]

\* the elements of S in the order a std::map iterates them
RECURSIVE SortedSeq(_)
SortedSeq(S) ==
  IF S = {} THEN <<>>
  ELSE LET m == CHOOSE y \in S : \A z \in S : Rank(y) <= Rank(z)
       IN  <<m>> \o SortedSeq(S \ {m})

\* lines 155-158: std::hash<string>{}(s) % 1024
Hash(str) == 31 * Rank(str) + 7
get_anchor(str) == Hash(str) % NumShards

\* lines 160-166: vs[s.str] = s.properties, a later Spelling of the same str
\* overwrites an earlier one
IndexVec(v) ==
  [t \in {v[j].str : j \in 1..Len(v)} |->
     LET last == CHOOSE j \in 1..Len(v) :
                   v[j].str = t /\ \A j2 \in 1..Len(v) : v[j2].str = t => j2 <= j
     IN  v[last].properties]

Index(m) == [key \in DOMAIN m |-> IndexVec(m[key])]

\* lines 316-325: one Spelling per (text, properties) of each key, in map order
FlattenEntry(vs) ==
  LET ts == SortedSeq(DOMAIN vs)
  IN  [j \in 1..Len(ts) |-> [str |-> ts[j], properties |-> vs[ts[j]]]]

Flatten(iv) == [key \in DOMAIN iv |-> FlattenEntry(iv[key])]

\* the current rule x of the loop of line 168
X == calculation_[round]

\* lines 213 and 240
RetainsAlways(t, x) == TRUE
Retains(t, x) == ~t.applied \/ (t.applied /\ ~x.deletion)

\* lines 223 and 269
DerivesEmpty(t, x) == t.applied /\ x.addition
Derives(t, x) == t.applied /\ (x.addition /\ t.s.str # "")

\* the call made on the Script before this one, and the vector it passed
LastCall == [op |-> call.op, v |-> IF call.op = "Merge" THEN call.v ELSE <<>>]

\* lines 141-166
ApplyBegin ==
  /\ phase = "idle"
  /\ call.n < MaxOps
  /\ call' = [op |-> "Apply", before |-> script, last |-> LastCall,
              n |-> call.n + 1]
  /\ thrown' = FALSE /\ any_applied' = FALSE /\ evaluated' = {}
  /\ anchors' = {}                                       \* lines 150-153
  /\ IF DOMAIN script = {}
       THEN /\ ret' = "false"                             \* lines 141-142
            /\ phase' = "done"
            /\ UNCHANGED <<modified, round, indexed_value, value_keys>>
       ELSE /\ ret' = "none"
            /\ phase' = "loop"
            /\ modified' = FALSE
            /\ round' = 0
            /\ indexed_value' = Index(script)
            /\ value_keys' = SortedSeq(DOMAIN script)
  /\ UNCHANGED <<foldVars, script, calculation_, textVars, new_value, new_value_keys,
                 applied_spelling_cache, claimed, taken, tid, unit, copy_shares,
                 trace>>

\* lines 168-181: the next rule, with its fresh locals
RoundBegin ==
  /\ phase = "loop"
  /\ round < Len(calculation_)
  /\ round' = round + 1
  /\ new_value' = NoIndex
  /\ new_value_keys' = <<>>
  /\ applied_spelling_cache' = [t \in 1..NumThreads |-> <<>>]
  /\ claimed' = {}
  /\ taken' = [t \in 1..NumThreads |-> 0]
  /\ evaluated' = {}
  /\ tid' = 1
  /\ unit' = NoUnits
  /\ phase' = "p1"
  /\ UNCHANGED <<foldVars, script, calculation_, ret, call, textVars, modified,
                 indexed_value, value_keys, anchors, copy_shares,
                 thrown, any_applied, trace>>

\* lines 183-199, one iteration of the parallel for, run by thread t.  A thread
\* runs the iterations it is given in increasing order.  x->Apply(&s) throws,
\* returns false, or rewrites s and returns true.
Phase1Unit(t, j) ==
  /\ phase = "p1"
  /\ j \in (1..Len(value_keys)) \ claimed
  /\ j > taken[t]
  /\ claimed' = claimed \cup {j}
  /\ taken' = [taken EXCEPT ![t] = j]
  /\ evaluated' = evaluated \cup {value_keys[j]}
  /\ LET k == value_keys[j] IN
     \/ /\ thrown' = TRUE                                 \* lines 193-196
        /\ UNCHANGED <<applied_spelling_cache, any_applied>>
     \/ /\ applied_spelling_cache' = [applied_spelling_cache EXCEPT ![t] =
               Append(@, [k |-> k, s |-> Spelling(k), applied |-> FALSE, err |-> ""])]
        /\ UNCHANGED <<thrown, any_applied>>
     \/ \E str \in Strings :
        /\ applied_spelling_cache' = [applied_spelling_cache EXCEPT ![t] =
               Append(@, [k |-> k, s |-> [str |-> str, properties |-> X.properties],
                          applied |-> TRUE, err |-> ""])]
        /\ any_applied' = TRUE
        /\ UNCHANGED thrown
  /\ UNCHANGED <<foldVars, script, calculation_, ret, call, phase, textVars, modified, round,
                 indexed_value, value_keys, new_value, new_value_keys, tid, unit,
                 anchors, copy_shares, trace>>

\* the caches of threads t..NumThreads one after another: the order of the
\* loops of lines 202-203
RECURSIVE CacheFrom(_)
CacheFrom(t) ==
  IF t > NumThreads THEN <<>>
  ELSE applied_spelling_cache[t] \o CacheFrom(t + 1)

ModifiedAssign(m, applied) == applied

\* line 211: modified |= applied
Modified(m, applied) == m \/ applied

\* the skeleton without new_value_keys_set for the keys of the derivations
RECURSIVE SkeletonNoKeySet(_, _, _)
SkeletonNoKeySet(ts, x, st) ==
  IF ts = <<>> THEN st
  ELSE LET t == Head(ts)
           k1 == IF Retains(t, x) /\ t.k \notin Range(st.keys)
                   THEN Append(st.keys, t.k) ELSE st.keys
           k2 == IF Derives(t, x) THEN Append(k1, t.s.str) ELSE k1
       IN  SkeletonNoKeySet(Tail(ts), x,
             [modified |-> Modified(st.modified, t.applied), keys |-> k2])

\* the skeleton without the keys of the derivations
RECURSIVE SkeletonRetainedOnly(_, _, _)
SkeletonRetainedOnly(ts, x, st) ==
  IF ts = <<>> THEN st
  ELSE LET t == Head(ts)
           k1 == IF Retains(t, x) /\ t.k \notin Range(st.keys)
                   THEN Append(st.keys, t.k) ELSE st.keys
       IN  SkeletonRetainedOnly(Tail(ts), x,
             [modified |-> Modified(st.modified, t.applied), keys |-> k1])

\* lines 211-230 for the tuples ts, st the locals so far
RECURSIVE Skeleton(_, _, _)
Skeleton(ts, x, st) ==
  IF ts = <<>> THEN st
  ELSE LET t == Head(ts)
           k1 == IF Retains(t, x) /\ t.k \notin Range(st.keys)
                   THEN Append(st.keys, t.k) ELSE st.keys
           k2 == IF Derives(t, x) /\ t.s.str \notin Range(k1)
                   THEN Append(k1, t.s.str) ELSE k1
       IN  Skeleton(Tail(ts), x, [modified |-> Modified(st.modified, t.applied), keys |-> k2])

IdleUnits(n) == [u \in 1..n |-> [pc |-> "todo", i |-> 0, e |-> FALSE]]

\* phase 2, lines 201-232, after the barrier that ends the parallel for of phase 1
Phase2 ==
  /\ phase = "p1"
  /\ claimed = 1..Len(value_keys)
  /\ LET ts == CacheFrom(1) IN
     IF \E j \in 1..Len(ts) : ts[j].err # ""
       THEN /\ ret' = "false"                             \* lines 206-209
            /\ phase' = "done"
            /\ UNCHANGED <<modified, new_value, new_value_keys, tid, unit>>
       ELSE LET st == Skeleton(ts, X, [modified |-> modified, keys |-> <<>>])
            IN  /\ modified' = st.modified
                /\ new_value_keys' = st.keys
                /\ new_value' = [key \in Range(st.keys) |->
                                   [t \in {} |-> DefaultProperties]]
                /\ tid' = 1
                /\ unit' = IdleUnits(Len(applied_spelling_cache[1]))
                /\ phase' = "p3"
                /\ UNCHANGED ret
  /\ UNCHANGED <<foldVars, script, calculation_, call, textVars, round, indexed_value,
                 value_keys, applied_spelling_cache, claimed, taken, anchors,
                 copy_shares, histVars>>

----------------------------------------------------------------------------
\* phase 3, lines 234-309: for each tid in turn, the iterations of the parallel
\* for over applied_spelling_cache[tid]

Tuple(u) == applied_spelling_cache[tid][u]

\* auto v = indexed_value[k], in the order the range-for walks it
SrcTexts(u) == SortedSeq(DOMAIN indexed_value[Tuple(u).k])

InFlight == {u \in DOMAIN unit : unit[u].pc \notin {"todo", "done"}}

Done == [pc |-> "done", i |-> 0, e |-> FALSE]
At(pc, i, e) == [pc |-> pc, i |-> i, e |-> e]

AfterRetain(u) == IF Derives(Tuple(u), X) THEN At("d_lock_s", 0, FALSE) ELSE Done

p3Locals == <<script, calculation_, ret, call, phase, textVars, modified, round,
              value_keys, new_value_keys, applied_spelling_cache,
              claimed, taken, tid, copy_shares, histVars, foldVars>>
p3Frame == <<p3Locals, indexed_value>>

\* a thread of the team takes iteration u
Phase3Take(u) ==
  /\ phase = "p3"
  /\ unit[u].pc = "todo"
  /\ Cardinality(InFlight) < NumThreads
  /\ unit' = [unit EXCEPT ![u] =
       IF Retains(Tuple(u), X) THEN At("r_lock", 0, FALSE) ELSE AfterRetain(u)]
  /\ UNCHANGED <<p3Frame, new_value, anchors>>

\* omp_lock_t anchor = get_anchor(...); omp_set_lock(&anchor): the lock that is
\* set is a copy of anchors[h % 1024].  Where the copy is the same lock, the call
\* waits until the shard is unset; where it is another lock, nothing waits.
SetLock(shard) ==
  IF copy_shares
    THEN shard \notin anchors /\ anchors' = anchors \cup {shard}
    ELSE UNCHANGED anchors

UnsetLock(shard) ==
  IF copy_shares THEN anchors' = anchors \ {shard} ELSE UNCHANGED anchors

\* lines 246-251
RetainLock(u) ==
  /\ phase = "p3"
  /\ unit[u].pc = "r_lock"
  /\ SetLock(get_anchor(Tuple(u).k))
  /\ unit' = [unit EXCEPT ![u] =
       IF SrcTexts(u) = <<>> THEN At("r_unlock", 0, FALSE) ELSE At("r_find", 1, FALSE)]
  /\ UNCHANGED <<p3Frame, new_value>>

\* line 254: auto e = vs.find(xs)
RetainFind(u) ==
  /\ phase = "p3"
  /\ unit[u].pc = "r_find"
  /\ unit' = [unit EXCEPT ![u] =
       At("r_write", @.i, SrcTexts(u)[@.i] \in DOMAIN new_value[Tuple(u).k])]
  /\ UNCHANGED <<p3Frame, new_value, anchors>>

RetainCollideKeepTips(xp, zz) ==
  [type        |-> IF xp.type < zz.type THEN xp.type ELSE zz.type,
   credibility |-> IF xp.credibility > zz.credibility
                     THEN xp.credibility ELSE zz.credibility,
   tips        |-> zz.tips]

\* lines 258-263
RetainCollide(xp, zz) ==
  [type        |-> IF xp.type < zz.type THEN xp.type ELSE zz.type,
   credibility |-> IF xp.credibility > zz.credibility
                     THEN xp.credibility ELSE zz.credibility,
   tips        |-> ""]

\* lines 255-264: what the branch taken on e writes into vs at xs
RetainStore(vs, xs, xp, e) ==
  IF ~e THEN Put(vs, xs, xp)
  ELSE [vs EXCEPT ![xs] = RetainCollide(xp, @)]

RetainWrite(u) ==
  /\ phase = "p3"
  /\ unit[u].pc = "r_write"
  /\ LET k == Tuple(u).k
         xs == SrcTexts(u)[unit[u].i]
         xp == indexed_value[k][xs]
     IN  new_value' = [new_value EXCEPT ![k] = RetainStore(@, xs, xp, unit[u].e)]
  /\ unit' = [unit EXCEPT ![u] =
       IF @.i < Len(SrcTexts(u)) THEN At("r_find", @.i + 1, FALSE)
       ELSE At("r_unlock", 0, FALSE)]
  /\ UNCHANGED <<p3Frame, anchors>>

\* line 266
RetainUnlock(u) ==
  /\ phase = "p3"
  /\ unit[u].pc = "r_unlock"
  /\ UnsetLock(get_anchor(Tuple(u).k))
  /\ unit' = [unit EXCEPT ![u] = AfterRetain(u)]
  /\ UNCHANGED <<p3Frame, new_value>>

\* lines 273-276: anchor_s is set first
DeriveLockS(u) ==
  /\ phase = "p3"
  /\ unit[u].pc = "d_lock_s"
  /\ SetLock(get_anchor(Tuple(u).s.str))
  /\ unit' = [unit EXCEPT ![u] = At("d_lock_k", 0, FALSE)]
  /\ UNCHANGED <<p3Frame, new_value>>

\* lines 277-281: then anchor_k
DeriveLockK(u) ==
  /\ phase = "p3"
  /\ unit[u].pc = "d_lock_k"
  /\ SetLock(get_anchor(Tuple(u).k))
  /\ unit' = [unit EXCEPT ![u] =
       IF SrcTexts(u) = <<>> THEN At("d_unlock_k", 0, FALSE) ELSE At("d_find", 1, FALSE)]
  /\ UNCHANGED <<p3Frame, new_value>>

\* lines 284-291: the rule's properties sp accumulated into xp, an element of
\* the copy v of indexed_value[k]
DeriveAccumulate(sp, xp) ==
  [type        |-> IF sp.type > xp.type THEN sp.type ELSE xp.type,
   credibility |-> xp.credibility + sp.credibility,
   tips        |-> IF sp.tips # "" THEN sp.tips ELSE xp.tips]

SourceAliased(src, k, xs, xp) == [src EXCEPT ![k][xs] = xp]

\* line 279: auto v = indexed_value[k] is a copy, and the loop of line 283
\* accumulates into the elements of the copy: the source is what it was
SourceAfterAccumulate(src, k, xs, xp) == src

\* line 292: auto e = vs.find(xs)
DeriveFind(u) ==
  /\ phase = "p3"
  /\ unit[u].pc = "d_find"
  /\ unit' = [unit EXCEPT ![u] =
       At("d_write", @.i, SrcTexts(u)[@.i] \in DOMAIN new_value[Tuple(u).s.str])]
  /\ UNCHANGED <<p3Frame, new_value, anchors>>

\* lines 296-301
DeriveCollide(xp, zz) ==
  [type        |-> IF xp.type < zz.type THEN xp.type ELSE zz.type,
   credibility |-> IF xp.credibility > zz.credibility
                     THEN xp.credibility ELSE zz.credibility,
   tips        |-> ""]

\* lines 293-302
DeriveStore(vs, xs, xp, e) ==
  IF ~e THEN Put(vs, xs, xp)
  ELSE [vs EXCEPT ![xs] = DeriveCollide(xp, @)]

DeriveWrite(u) ==
  /\ phase = "p3"
  /\ unit[u].pc = "d_write"
  /\ LET t == Tuple(u)
         xs == SrcTexts(u)[unit[u].i]
         xp == DeriveAccumulate(t.s.properties, indexed_value[t.k][xs])
     IN  /\ new_value' = [new_value EXCEPT ![t.s.str] =
                              DeriveStore(@, xs, xp, unit[u].e)]
         /\ indexed_value' = SourceAfterAccumulate(indexed_value, t.k, xs, xp)
  /\ unit' = [unit EXCEPT ![u] =
       IF @.i < Len(SrcTexts(u)) THEN At("d_find", @.i + 1, FALSE)
       ELSE At("d_unlock_k", 0, FALSE)]
  /\ UNCHANGED <<p3Locals, anchors>>

\* line 305
DeriveUnlockK(u) ==
  /\ phase = "p3"
  /\ unit[u].pc = "d_unlock_k"
  /\ UnsetLock(get_anchor(Tuple(u).k))
  /\ unit' = [unit EXCEPT ![u] = At("d_unlock_s", 0, FALSE)]
  /\ UNCHANGED <<p3Frame, new_value>>

\* line 306
DeriveUnlockS(u) ==
  /\ phase = "p3"
  /\ unit[u].pc = "d_unlock_s"
  /\ UnsetLock(get_anchor(Tuple(u).s.str))
  /\ unit' = [unit EXCEPT ![u] = Done]
  /\ UNCHANGED <<p3Frame, new_value>>

Phase3NoBarrier == TRUE

\* the barrier that ends a parallel for (line 308): every iteration has run
Phase3Barrier == \A u \in DOMAIN unit : unit[u].pc = "done"

\* lines 235 and 309: the next tid of the outer loop
Phase3NextTid ==
  /\ phase = "p3"
  /\ Phase3Barrier
  /\ tid < NumThreads
  /\ tid' = tid + 1
  /\ unit' = IdleUnits(Len(applied_spelling_cache[tid + 1]))
  /\ UNCHANGED <<foldVars, script, calculation_, ret, call, phase, textVars, modified, round,
                 indexed_value, value_keys, new_value, new_value_keys,
                 applied_spelling_cache, claimed, taken, anchors, copy_shares,
                 histVars>>

\* lines 311-312, after the last tid
RoundEnd ==
  /\ phase = "p3"
  /\ Phase3Barrier
  /\ tid = NumThreads
  /\ indexed_value' = new_value
  /\ value_keys' = new_value_keys
  /\ new_value' = indexed_value
  /\ new_value_keys' = value_keys
  /\ phase' = "loop"
  /\ UNCHANGED <<foldVars, script, calculation_, ret, call, textVars, modified, round,
                 applied_spelling_cache, claimed, taken, tid, unit, anchors,
                 copy_shares, histVars>>

\* lines 315-328
ApplyEnd ==
  /\ phase = "loop"
  /\ round = Len(calculation_)
  /\ script' = IF modified THEN Flatten(indexed_value) ELSE script
  /\ ret' = IF modified THEN "true" ELSE "false"
  /\ phase' = "done"
  /\ UNCHANGED <<foldVars, calculation_, call, textVars, applyVars>>

\* The entry vs[xs] of one str xs, lines 254-264: operand i lands on it.  The
\* first to land is assigned, a later one collides with what is there.
Land(i) ==
  /\ i \in (1..Len(operands)) \ folded
  /\ folded' = folded \cup {i}
  /\ target' = RetainStore(target, "a", operands[i], "a" \in DOMAIN target)
  /\ UNCHANGED <<script, calculation_, ret, call, phase, textVars, applyVars,
                 operands>>

\* line 328 and the early returns: the caller has the Script back
ApplyReturn ==
  /\ phase = "done"
  /\ phase' = "idle"
  /\ UNCHANGED <<foldVars, script, calculation_, ret, call, textVars, applyVars>>

----------------------------------------------------------------------------
\* Specifications

\* the sequences over S of length at most n
RECURSIVE SeqsUpTo(_, _)
SeqsUpTo(S, n) ==
  IF n = 0 THEN {<<>>}
  ELSE LET shorter == SeqsUpTo(S, n - 1)
       IN  shorter \cup {Append(q, e) : q \in shorter, e \in S}

\* the entry lists of a Script: no two entries of a list have the same str
EntryLists(n) ==
  {q \in SeqsUpTo([str : Syllables, properties : {DefaultProperties}], n) :
     \A j1, j2 \in 1..Len(q) : q[j1].str = q[j2].str => j1 = j2}

\* the rows of a Script, a key without entries counting for one
RECURSIVE Rows(_, _)
Rows(m, K) ==
  IF K = {} THEN 0
  ELSE LET key == CHOOSE y \in K : TRUE
       IN  (IF Len(m[key]) = 0 THEN 1 ELSE Len(m[key])) + Rows(m, K \ {key})

Scripts(n) ==
  {m \in UNION {[K -> EntryLists(n)] : K \in SUBSET Strings} :
     Rows(m, DOMAIN m) <= n}

InitLocals ==
  /\ ret = "none"
  /\ call = [op |-> "none", n |-> 0]
  /\ phase = "idle"
  /\ text = "" /\ cand = "" /\ pos = 0
  /\ modified = FALSE
  /\ round = 0
  /\ indexed_value = NoIndex /\ value_keys = <<>>
  /\ new_value = NoIndex /\ new_value_keys = <<>>
  /\ applied_spelling_cache = [t \in 1..NumThreads |-> <<>>]
  /\ claimed = {} /\ taken = [t \in 1..NumThreads |-> 0]
  /\ tid = 1 /\ unit = NoUnits
  /\ anchors = {}
  /\ thrown = FALSE /\ any_applied = FALSE /\ evaluated = {} /\ trace = <<>>

InitNoFold == operands = <<>> /\ folded = {} /\ target = NoEntries

\* Projection::Apply(Script*): one call, on a Script and with a pipeline that
\* together weigh at most MaxLoad
Init ==
  /\ InitLocals
  /\ InitNoFold
  /\ calculation_ \in SeqsUpTo(Calculations, MaxLoad)
  /\ script \in Scripts(MaxLoad - Len(calculation_))
  /\ copy_shares \in BOOLEAN

Next ==
  \/ ApplyBegin
  \/ RoundBegin
  \/ \E t \in 1..NumThreads, j \in 1..Len(value_keys) : Phase1Unit(t, j)
  \/ Phase2
  \/ \E u \in DOMAIN unit : Phase3Take(u)
  \/ \E u \in DOMAIN unit : RetainLock(u)
  \/ \E u \in DOMAIN unit : RetainFind(u)
  \/ \E u \in DOMAIN unit : RetainWrite(u)
  \/ \E u \in DOMAIN unit : RetainUnlock(u)
  \/ \E u \in DOMAIN unit : DeriveLockS(u)
  \/ \E u \in DOMAIN unit : DeriveLockK(u)
  \/ \E u \in DOMAIN unit : DeriveFind(u)
  \/ \E u \in DOMAIN unit : DeriveWrite(u)
  \/ \E u \in DOMAIN unit : DeriveUnlockK(u)
  \/ \E u \in DOMAIN unit : DeriveUnlockS(u)
  \/ Phase3NextTid
  \/ RoundEnd
  \/ ApplyEnd

Spec == Init /\ [][Next]_vars

\* Script::AddSyllable and Script::Merge, from the empty Script
IncomingSpellings == [str : Syllables, properties : {DefaultProperties, FuzzyProperties}]

InitScript ==
  /\ InitLocals
  /\ InitNoFold
  /\ script = NoScript
  /\ calculation_ = <<>>
  /\ copy_shares = FALSE

NextScript ==
  \/ \E syllable \in Strings : AddSyllable(syllable)
  \/ \E syl \in Syllables, sp \in SpellingProperties,
        v \in SeqsUpTo(IncomingSpellings, 2) : Merge(syl, sp, v)

SpecScript == InitScript /\ [][NextScript]_vars

\* Projection::Load, from the empty pipeline
Settings ==
  {[null |-> TRUE, items |-> <<>>]}
    \cup {[null |-> FALSE, items |-> q] : q \in SeqsUpTo(Items, MaxFormulas)}

InitLoad ==
  /\ InitLocals
  /\ InitNoFold
  /\ script = NoScript
  /\ calculation_ = <<>>
  /\ copy_shares = FALSE

NextLoad == \E settings \in Settings : Load(settings)

SpecLoad == InitLoad /\ [][NextLoad]_vars

\* Projection::Apply(string*), with a loaded pipeline
InitText ==
  /\ InitLocals
  /\ InitNoFold
  /\ script = NoScript
  /\ calculation_ \in SeqsUpTo(Calculations, MaxRules)
  /\ copy_shares = FALSE

NextText ==
  \/ \E isnull \in BOOLEAN, v \in Strings : ApplyTextBegin(isnull, v)
  \/ ApplyTextRule
  \/ ApplyTextEnd

SpecText == InitText /\ [][NextText]_vars

\* One entry of the next generation and three properties that land on it, in
\* every order
InitFold ==
  /\ InitLocals
  /\ script = NoScript
  /\ calculation_ = <<>>
  /\ copy_shares = FALSE
  /\ operands \in [1..3 -> SpellingProperties]
  /\ folded = {}
  /\ target = NoEntries

NextFold == \E i \in 1..Len(operands) : Land(i)

SpecFold == InitFold /\ [][NextFold]_vars

\* Projection::Apply(Script*): one call with two rules, the first of which
\* deletes what it rewrites, on a Script that AddSyllable built of two strings,
\* so that the second round starts from the keys the first created
InitRounds ==
  /\ InitLocals
  /\ InitNoFold
  /\ calculation_ \in {q \in [1..2 -> Calculations] : q[1].deletion}
  /\ \E K \in SUBSET Strings :
       /\ Cardinality(K) = 2
       /\ script = [syllable \in K |-> <<Spelling(syllable)>>]
  /\ copy_shares \in BOOLEAN

SpecRounds == InitRounds /\ [][Next]_vars

\* Script::AddSyllable, Script::Merge and Projection::Apply(Script*) in any
\* order, from the empty Script
InitDict ==
  /\ InitLocals
  /\ InitNoFold
  /\ script = NoScript
  /\ calculation_ \in SeqsUpTo(Calculations, 1)
  /\ copy_shares \in BOOLEAN

NextDict ==
  \/ \E syllable \in Strings : AddSyllable(syllable)
  \/ \E syl \in Syllables, sp \in {DefaultProperties, FuzzyProperties},
        v \in SeqsUpTo({Spelling(str) : str \in Syllables}, 2) : Merge(syl, sp, v)
  \/ ApplyBegin
  \/ RoundBegin
  \/ \E t \in 1..NumThreads, j \in 1..Len(value_keys) : Phase1Unit(t, j)
  \/ Phase2
  \/ \E u \in DOMAIN unit : Phase3Take(u)
  \/ \E u \in DOMAIN unit : RetainLock(u)
  \/ \E u \in DOMAIN unit : RetainFind(u)
  \/ \E u \in DOMAIN unit : RetainWrite(u)
  \/ \E u \in DOMAIN unit : RetainUnlock(u)
  \/ \E u \in DOMAIN unit : DeriveLockS(u)
  \/ \E u \in DOMAIN unit : DeriveLockK(u)
  \/ \E u \in DOMAIN unit : DeriveFind(u)
  \/ \E u \in DOMAIN unit : DeriveWrite(u)
  \/ \E u \in DOMAIN unit : DeriveUnlockK(u)
  \/ \E u \in DOMAIN unit : DeriveUnlockS(u)
  \/ Phase3NextTid
  \/ RoundEnd
  \/ ApplyEnd
  \/ ApplyReturn

SpecDict == InitDict /\ [][NextDict]_vars

----------------------------------------------------------------------------
\* Properties of Projection::Apply(Script*)

ApplyDone == phase = "done" /\ call.op = "Apply"

\* the tuples phase 1 left, of all threads
Tuples == Range(CacheFrom(1))

\* the fill of a round is over: before the swap of lines 311-312, or after it
RoundOver ==
  \/ phase = "p3" /\ tid = NumThreads /\ \A u \in DOMAIN unit : unit[u].pc = "done"
  \/ phase = "loop" /\ round >= 1

\* the generation the round started from, and the one it produced
SrcGen == IF phase = "p3" THEN indexed_value ELSE new_value
NextGen == IF phase = "p3" THEN new_value ELSE indexed_value

\* no x->Apply of the round threw: every key of the source has its tuple
NoThrowInRound == {t.k : t \in Tuples} = DOMAIN SrcGen

\* C1: when an x->Apply throws on some key in some round, Apply(Script*) returns
\* false and the caller's Script is what it was before the call.
C1_ErrorFailsAndKeepsScript ==
  (ApplyDone /\ thrown) => (ret = "false" /\ script = call.before)

\* One worker: the units run one at a time, each from its first step to its
\* last, in the order of value_keys.
RECURSIVE FillAlone(_, _, _, _, _)
FillAlone(vs, src, ts, sp, derive) ==
  IF ts = <<>> THEN vs
  ELSE LET xs == Head(ts)
           e == xs \in DOMAIN vs
           vs1 == IF derive
                    THEN DeriveStore(vs, xs, DeriveAccumulate(sp, src[xs]), e)
                    ELSE RetainStore(vs, xs, src[xs], e)
       IN  FillAlone(vs1, src, Tail(ts), sp, derive)

UnitAlone(nv, t, x) ==
  LET src == SrcGen[t.k]
      texts == SortedSeq(DOMAIN src)
      kept == ~t.applied \/ ~x.deletion
      derived == t.applied /\ x.addition /\ t.s.str # ""
      nv1 == IF kept
               THEN [nv EXCEPT ![t.k] = FillAlone(@, src, texts, t.s.properties, FALSE)]
               ELSE nv
  IN  IF derived
        THEN [nv1 EXCEPT ![t.s.str] = FillAlone(@, src, texts, t.s.properties, TRUE)]
        ELSE nv1

RECURSIVE OneWorker(_, _, _)
OneWorker(nv, ts, x) ==
  IF ts = <<>> THEN nv
  ELSE OneWorker(UnitAlone(nv, Head(ts), x), Tail(ts), x)

TuplesInKeyOrder ==
  LET keys == SortedSeq(DOMAIN SrcGen)
  IN  [j \in 1..Len(keys) |-> CHOOSE t \in Tuples : t.k = keys[j]]

\* C2: a round whose rule does not throw produces, under every schedule of its
\* parallel loops, the generation one worker produces.
C2_OrderIndependent ==
  (RoundOver /\ NoThrowInRound) =>
    NextGen = OneWorker([key \in DOMAIN NextGen |-> [t \in {} |-> DefaultProperties]],
                        TuplesInKeyOrder, X)

\* the same, where a copy of an omp_lock_t is the same lock
C2_OrderIndependentIfLocked == copy_shares => C2_OrderIndependent

\* C3: after a round whose rule does not throw, the keys of the next generation
\* are the keys the rule left unchanged or changed but retained, and the
\* non-empty new texts of the keys it changed when it inserts what it derives.
C3_ExpectedKeys ==
  {t.k : t \in {t \in Tuples : ~t.applied \/ ~X.deletion}}
    \cup {t.s.str : t \in {t \in Tuples : t.applied /\ X.addition /\ t.s.str # ""}}

C3_KeySet == (RoundOver /\ NoThrowInRound) => DOMAIN NextGen = C3_ExpectedKeys

\* a changed key with a non-empty new text, under each of the four flag pairs
C3_Changed(del, add) ==
  /\ RoundOver /\ NoThrowInRound
  /\ X.deletion = del /\ X.addition = add
  /\ \E t \in Tuples :
       /\ t.applied /\ t.s.str # "" /\ t.s.str # t.k
       /\ DOMAIN SrcGen = {t.k}
       /\ DOMAIN NextGen = (IF del THEN {} ELSE {t.k}) \cup (IF add THEN {t.s.str} ELSE {})

C3_Witness == C3_Changed(TRUE, TRUE)
C3_WitnessRetainOnly == C3_Changed(FALSE, FALSE)
C3_WitnessBoth == C3_Changed(FALSE, TRUE)
C3_WitnessNeither == C3_Changed(TRUE, FALSE)

\* C4: Apply(Script*) returns true exactly when some x->Apply returned true;
\* when it returns false the Script is what it was, and when it returns true
\* the Script holds, per key of the final generation and in the order of the
\* texts, one Spelling per (text, properties) of that key.
C4_IsFlattening(m, iv) ==
  /\ DOMAIN m = DOMAIN iv
  /\ \A key \in DOMAIN m :
       /\ Len(m[key]) = Cardinality(DOMAIN iv[key])
       /\ \A j \in 1..Len(m[key]) :
            /\ m[key][j].str \in DOMAIN iv[key]
            /\ m[key][j].properties = iv[key][m[key][j].str]
            /\ \A j2 \in 1..Len(m[key]) :
                 j < j2 => Rank(m[key][j].str) < Rank(m[key][j2].str)

C4_CommitRule ==
  ApplyDone =>
    /\ (ret = "true") <=> any_applied
    /\ ret \in {"true", "false"}
    /\ ret = "false" => script = call.before
    /\ ret = "true" => C4_IsFlattening(script, indexed_value)

C4_Witness == ApplyDone /\ ret = "true" /\ script # call.before

\* C5: a round starts only after every unit of the fill of the round before it
\* is done, for every tid, and its rule is applied to the keys of the
\* generation that round handed over, and to nothing else.
C5_KeysOfGeneration ==
  /\ phase \in {"p1", "p3"} =>
       /\ Range(value_keys) = DOMAIN indexed_value
       /\ evaluated \subseteq DOMAIN indexed_value
  /\ phase = "p3" => evaluated = DOMAIN indexed_value

C5_Barrier ==
  (phase = "p3" /\ (tid' # tid \/ phase' # "p3")) =>
    /\ \A u \in DOMAIN unit : unit[u].pc = "done"
    /\ phase' # "p3" => (tid = NumThreads /\ phase' = "loop")

C5_Handover ==
  /\ (phase = "p3" /\ phase' = "loop") =>
       (indexed_value' = new_value /\ Range(value_keys') = DOMAIN new_value)
  /\ round' # round => (phase = "loop" /\ round' = round + 1 /\ phase' = "p1")
  /\ (phase \in {"p1", "p3"} /\ phase' \in {"p1", "p3"}) =>
       (round' = round /\ indexed_value' = indexed_value)

C5_RoundSequencing ==
  /\ []C5_KeysOfGeneration
  /\ [][C5_Barrier /\ C5_Handover]_vars

\* the second rule is being applied to a key the first round derived
C5_Witness ==
  /\ phase = "p1" /\ round = 2
  /\ evaluated \ DOMAIN call.before # {}

\* what lands on the text T of the key K of the next generation: the entry of
\* each retained unit of key K, and the accumulated entry of each unit whose
\* derivation is K
C6_Retained(K, T) ==
  {t \in Tuples : t.k = K /\ (~t.applied \/ ~X.deletion) /\ T \in DOMAIN SrcGen[K]}

C6_Derived(K, T) ==
  {t \in Tuples : /\ t.applied /\ X.addition /\ t.s.str = K /\ K # ""
                  /\ T \in DOMAIN SrcGen[t.k]}

C6_Sum(orig, emitted) ==
  [type        |-> IF orig.type > emitted.type THEN orig.type ELSE emitted.type,
   credibility |-> orig.credibility + emitted.credibility]

C6_Landed(K, T) ==
  {[type |-> SrcGen[K][T].type, credibility |-> SrcGen[K][T].credibility] :
     t \in C6_Retained(K, T)}
    \cup {C6_Sum(SrcGen[t.k][T], t.s.properties) : t \in C6_Derived(K, T)}

\* C6: an entry one derivation alone lands on has the credibility of the
\* original plus the rule's and the greater of the two types; an entry two or
\* more land on has the greatest of their credibilities, the least of their
\* types and no tips.
C6_AccumulateThenMerge ==
  (RoundOver /\ NoThrowInRound) =>
    \A K \in DOMAIN NextGen : \A T \in DOMAIN NextGen[K] :
      LET n == Cardinality(C6_Retained(K, T)) + Cardinality(C6_Derived(K, T))
          zz == NextGen[K][T]
          landed == C6_Landed(K, T)
      IN  /\ (n = 1 /\ C6_Retained(K, T) = {}) =>
               \E p \in landed : zz.type = p.type /\ zz.credibility = p.credibility
          /\ n >= 2 =>
               /\ zz.tips = ""
               /\ \E p \in landed : /\ zz.credibility = p.credibility
                                     /\ \A q \in landed : q.credibility <= p.credibility
               /\ \E p \in landed : /\ zz.type = p.type
                                     /\ \A q \in landed : q.type >= p.type

C6_AccumulateThenMergeIfLocked == copy_shares => C6_AccumulateThenMerge

\* C7 as claimed: no generation a round produces has the empty string as a key.
C7_NoEmptyKey == RoundOver => "" \notin DOMAIN NextGen

\* C7: a unit the rule changed to the empty string creates no key and no entry:
\* the empty string is a key of the generation a round produces only as a
\* retained key of the generation the round started from, with the entries it
\* had there.
C7_EmptyTextGuard ==
  (RoundOver /\ NoThrowInRound /\ "" \in DOMAIN NextGen) =>
    /\ "" \in DOMAIN SrcGen
    /\ \E t \in Tuples : t.k = "" /\ (~t.applied \/ ~X.deletion)
    /\ NextGen[""] = SrcGen[""]

C7_Witness ==
  /\ RoundOver /\ NoThrowInRound
  /\ X.addition
  /\ \E t \in Tuples : t.applied /\ t.s.str = ""
  /\ "" \notin DOMAIN NextGen

----------------------------------------------------------------------------
\* Properties of Projection::Load, Projection::Apply(string*), Script::AddSyllable

C8_Loaded(items) ==
  /\ ret = "true"
  /\ Len(calculation_) = Len(items)
  /\ \A j \in 1..Len(items) : calculation_[j] = Compile(items[j])

C8_Parses(items) ==
  \A j \in 1..Len(items) : items[j] \in GoodFormulas

\* C8: after every Load the pipeline holds the compiled rules of all the
\* formulas of the call's list, in their order, and the call returned true, or
\* it holds no rule and the call returned false.
C8_AllOrNothing ==
  call.op = "Load" =>
    \/ ~call.settings.null /\ C8_Loaded(call.settings.items)
    \/ ret = "false" /\ calculation_ = <<>>

\* the same of the calls that pass a list
C8_AllOrNothingOfLists ==
  (call.op = "Load" /\ ~call.settings.null) =>
    IF C8_Parses(call.settings.items)
      THEN C8_Loaded(call.settings.items)
      ELSE ret = "false" /\ calculation_ = <<>>

\* a call without a list returns false and leaves the pipeline as it was
C8_NullKeepsPipeline ==
  (call.op = "Load" /\ call.settings.null) =>
    (ret = "false" /\ calculation_ = call.before)

\* C9: when a rule throws, Apply(string*) returns false and the caller's
\* string is what it was, whatever earlier rules did to the candidate;
\* otherwise every rule is given what the rule before it left, the first the
\* caller's string, the call returns true exactly when some rule returned
\* true, and then the caller's string is what the last rule left.
C9_Finished ==
  phase = "idle" /\ call.op = "ApplyText" /\ ~call.null /\ call.value # ""

C9_ErrorAtomicity ==
  C9_Finished =>
    IF thrown
      THEN ret = "false" /\ text = call.value
      ELSE /\ Len(trace) = Len(calculation_)
           /\ \A j \in 1..Len(trace) :
                trace[j].in = (IF j = 1 THEN call.value ELSE trace[j - 1].out)
           /\ (ret = "true") <=> (\E j \in 1..Len(trace) : trace[j].applied)
           /\ ret \in {"true", "false"}
           /\ text = (IF ret = "true" THEN trace[Len(trace)].out ELSE call.value)

\* a rule threw after an earlier rule of the call rewrote the candidate
C9_Witness ==
  /\ C9_Finished /\ thrown
  /\ \E j \in 1..Len(trace) : trace[j].applied /\ trace[j].out # call.value

C10_Frame ==
  /\ DOMAIN script = DOMAIN call.before \cup {call.name}
  /\ \A key \in DOMAIN call.before : script[key] = call.before[key]

\* C10 as claimed: a new name is mapped to an empty entry list.
C10_AddSyllableEmptyList ==
  call.op = "AddSyllable" =>
    IF call.name \in DOMAIN call.before
      THEN ret = "false" /\ script = call.before
      ELSE ret = "true" /\ C10_Frame /\ script[call.name] = <<>>

\* C10: AddSyllable of a name the Script does not have returns true, maps the
\* name to a list of one Spelling, whose str is the name, and leaves the other
\* syllables as they were; of a name the Script has, it returns false and
\* leaves the Script as it was.
C10_AddSyllable ==
  call.op = "AddSyllable" =>
    IF call.name \in DOMAIN call.before
      THEN ret = "false" /\ script = call.before
      ELSE /\ ret = "true"
           /\ C10_Frame
           /\ Len(script[call.name]) = 1
           /\ script[call.name][1].str = call.name

C10_Witness ==
  /\ call.op = "AddSyllable" /\ ret = "true"
  /\ DOMAIN call.before # {}

----------------------------------------------------------------------------
\* Properties of the Script across calls

RepeatsText(q) == \E j1, j2 \in 1..Len(q) : j1 # j2 /\ q[j1].str = q[j2].str

\* C11: from the empty Script, after any sequence of AddSyllable, Merge (also of
\* a vector that repeats a str) and Apply(Script*) calls, no entry list of the
\* Script holds two Spellings of the same str.
C11_UniqueTexts == \A key \in DOMAIN script : ~RepeatsText(script[key])

\* an Apply that rewrote a Script built by a Merge of a vector repeating a str
C11_Witness ==
  /\ phase = "idle" /\ call.op = "Apply" /\ ret = "true"
  /\ call.last.op = "Merge" /\ RepeatsText(call.last.v)
  /\ script # call.before

----------------------------------------------------------------------------
\* Properties of the collision of two SpellingProperties

\* the three ways of the claim to combine A, B and C with the collision M
AssocComm(M(_, _), A, B, C) ==
  /\ M(M(A, B), C) = M(A, M(B, C))
  /\ M(A, M(B, C)) = M(M(A, C), B)

\* C12: the collision of lines 258-263 and of lines 45-50 (type = min,
\* credibility = max, tips cleared) is associative and commutative on any three
\* properties, so the properties that land on one entry leave the same entry in
\* whatever order they land.
C12_MergeAssocComm ==
  LET A == operands[1]
      B == operands[2]
      C == operands[3]
  IN  operands # <<>> =>
        /\ AssocComm(RetainCollide, A, B, C)
        /\ AssocComm(MergeCollide, A, B, C)
        /\ folded = 1..3 => target["a"] = RetainCollide(RetainCollide(A, B), C)

\* three different properties have landed, each with its own tips or type
C12_Witness ==
  /\ folded = 1..3
  /\ operands[1] # operands[2] /\ operands[2] # operands[3]
  /\ operands[1] # operands[3]
  /\ operands[1].tips # operands[2].tips

\* properties land on an entry that holds the very same properties
C14_SelfCollision ==
  /\ "a" \in DOMAIN target
  /\ folded' # folded
  /\ \E i \in folded' \ folded : operands[i] = target["a"]

\* C14: a collision of properties A with an entry that holds A leaves A: type
\* and credibility as they were and the tips not cleared.
C14_Idempotent == [][C14_SelfCollision => target' = target]_vars

\* the same for type and credibility alone
C14_IdempotentTypeCred ==
  [][C14_SelfCollision =>
       /\ target'["a"].type = target["a"].type
       /\ target'["a"].credibility = target["a"].credibility]_vars

\* what the code does to the tips
C14_TipsCleared == [][C14_SelfCollision => target'["a"].tips = ""]_vars

----------------------------------------------------------------------------
\* Properties of Script::Merge

Max(S) == CHOOSE y \in S : \A z \in S : z <= y
Min(S) == CHOOSE y \in S : \A z \in S : y <= z

Texts(q) == {q[j].str : j \in 1..Len(q)}

\* the properties of the entry of str T in a list without repeated str
PropsOf(q, T) == (CHOOSE e \in Range(q) : e.str = T).properties

\* the accumulation rule: type = max, credibility = sum, tips of sp unless empty
C13_Combined(sp, xp) ==
  [type        |-> Max({sp.type, xp.type}),
   credibility |-> sp.credibility + xp.credibility,
   tips        |-> IF sp.tips = "" THEN xp.tips ELSE sp.tips]

\* the properties of str T after the merge of sp and v into the list old
C13_Expected(old, sp, v, T) ==
  LET combined == [j \in {j \in 1..Len(v) : v[j].str = T} |->
                     C13_Combined(sp, v[j].properties)]
      present == IF T \in Texts(old) THEN {PropsOf(old, T)} ELSE {}
      all == present \cup {combined[j] : j \in DOMAIN combined}
  IN  IF DOMAIN combined = {} THEN PropsOf(old, T)
      ELSE IF present = {} /\ Cardinality(DOMAIN combined) = 1
             THEN combined[CHOOSE j \in DOMAIN combined : TRUE]
      ELSE [type        |-> Min({p.type : p \in all}),
            credibility |-> Max({p.credibility : p \in all}),
            tips        |-> ""]

\* the str of v that old does not have, in the order v first brings them
RECURSIVE C13_Appended(_, _)
C13_Appended(have, v) ==
  IF v = <<>> THEN <<>>
  ELSE IF Head(v).str \in have THEN C13_Appended(have, Tail(v))
  ELSE <<Head(v).str>> \o C13_Appended(have \cup {Head(v).str}, Tail(v))

C13_MergeStep == call' # call /\ call'.op = "Merge"

\* C13: Script::Merge(s, sp, v) accumulates sp into each Spelling of v (type =
\* max, credibility = sum, tips of sp unless empty), appends it to the list of
\* s when the list has no Spelling of that str, and otherwise leaves in the
\* Spelling of that str the min type, the max credibility and no tips; the
\* other Spellings of s and the other syllables are unchanged.
C13_Merge ==
  [][C13_MergeStep =>
       LET s == call'.name
           old == ScriptAt(script, s)
           new == script'[s]
           strs == [j \in 1..Len(old) |-> old[j].str]
                     \o C13_Appended(Texts(old), call'.v)
       IN  /\ DOMAIN script' = DOMAIN script \cup {s}
           /\ \A key \in DOMAIN script \ {s} : script'[key] = script[key]
           /\ [j \in 1..Len(new) |-> new[j].str] = strs
           /\ \A j \in 1..Len(new) :
                new[j].properties = C13_Expected(old, call'.sp, call'.v, new[j].str)
  ]_vars

\* a Merge that brought one Spelling the list had and one it had not, with
\* properties to accumulate
C13_Witness ==
  /\ call.op = "Merge" /\ call.sp # DefaultProperties
  /\ LET old == ScriptAt(call.before, call.name)
     IN  /\ \E x \in Range(call.v) : x.str \in Texts(old)
         /\ \E x \in Range(call.v) : x.str \notin Texts(old)

----------------------------------------------------------------------------
\* Properties of phase 3

\* unit u is between its vs.find and the end of its loop over v, and the key of
\* new_value whose map it works on
InSection(u) == unit[u].pc \in {"r_find", "r_write", "d_find", "d_write"}
TargetKey(u) ==
  IF unit[u].pc \in {"r_find", "r_write"} THEN Tuple(u).k ELSE Tuple(u).s.str

\* C15: at any moment of phase 3 at most one unit is inside the
\* find-then-insert-or-collide section on the map of a key of new_value, and on
\* the maps of the keys of one shard.
C15_MutualExclusion ==
  phase = "p3" =>
    \A u1, u2 \in DOMAIN unit :
      (u1 # u2 /\ InSection(u1) /\ InSection(u2)) =>
        get_anchor(TargetKey(u1)) # get_anchor(TargetKey(u2))

\* the same, where a copy of an omp_lock_t is the same lock
C15_MutualExclusionIfLocked == copy_shares => C15_MutualExclusion

\* unit u has called omp_set_lock for the shard of s.str and not yet for the
\* shard of k
HoldsFirst(u) == unit[u].pc = "d_lock_k"

\* C16: a unit that sets two shards sets them in ascending order of their index
\* in anchors[], so that no two units of a parallel for set the same two shards
\* in opposite orders.
C16_CanonicalLockOrder ==
  phase = "p3" =>
    /\ \A u \in DOMAIN unit :
         HoldsFirst(u) => get_anchor(Tuple(u).s.str) <= get_anchor(Tuple(u).k)
    /\ \A u1, u2 \in DOMAIN unit :
         (Derives(Tuple(u1), X) /\ Derives(Tuple(u2), X)) =>
           ~(/\ get_anchor(Tuple(u1).s.str) = get_anchor(Tuple(u2).k)
             /\ get_anchor(Tuple(u1).k) = get_anchor(Tuple(u2).s.str)
             /\ get_anchor(Tuple(u1).k) # get_anchor(Tuple(u1).s.str))

\* what the code does: the shard of s.str first, then the shard of k
C16_TextThenKey ==
  [][\A u \in DOMAIN unit :
       (phase = "p3" /\ u \in DOMAIN unit' /\ unit[u].pc = "d_lock_s"
          /\ unit'[u].pc # "d_lock_s") => unit'[u].pc = "d_lock_k"]_vars

\* Fair scheduling of the threads: a step that can be taken is taken
SpecFair == Spec /\ WF_vars(Next)

\* C17: under fair scheduling every unit of phase 3 of every round completes
\* and Apply(Script*) returns.
C17_ApplyTerminates == (call.op = "Apply") ~> (phase = "done")

\* the same, where a copy of an omp_lock_t is a lock of its own
C17_ApplyTerminatesIfNotLocked ==
  (call.op = "Apply" /\ ~copy_shares) ~> (phase = "done")

\* a unit waits for a shard that a unit which itself waits, or the unit itself,
\* has set
C17_Stuck ==
  /\ phase = "p3"
  /\ InFlight # {}
  /\ \A u \in InFlight :
       \/ unit[u].pc = "r_lock" /\ get_anchor(Tuple(u).k) \in anchors
       \/ unit[u].pc = "d_lock_s" /\ get_anchor(Tuple(u).s.str) \in anchors
       \/ unit[u].pc = "d_lock_k" /\ get_anchor(Tuple(u).k) \in anchors
  /\ copy_shares

\* no state of phase 3 has every unit in flight waiting
C17_NeverStuck == ~C17_Stuck

\* the keys of new_value the units of phase 3 look up: new_value.find(k) of
\* line 250 and new_value.find(s.str) of line 280
C18_Lookups(ts) ==
  {t.k : t \in {t \in ts : Retains(t, X)}}
    \cup {t.s.str : t \in {t \in ts : Derives(t, X)}}

\* C18: phase 2 runs before phase 3 and creates, each with an empty map, every
\* key of new_value a unit of phase 3 looks up; while phase 3 runs no key is
\* inserted into or removed from new_value, so no lookup misses.
C18_FrozenKeys ==
  [][/\ (phase = "p1" /\ phase' = "p3") =>
          /\ \A key \in DOMAIN new_value' : new_value'[key] = NoEntries
          /\ C18_Lookups(Tuples) \subseteq DOMAIN new_value'
     /\ (phase = "p3" /\ phase' = "p3") =>
          /\ DOMAIN new_value' = DOMAIN new_value
          /\ C18_Lookups({Tuple(u) : u \in DOMAIN unit}) \subseteq DOMAIN new_value
     /\ (phase' = "p3" /\ new_value' # new_value) => phase \in {"p1", "p3"}
  ]_vars

\* a unit is writing under a key that phase 2 created for a derivation, a key
\* the source generation does not have
C18_Witness ==
  /\ phase = "p3"
  /\ \E u \in DOMAIN unit :
       /\ unit[u].pc = "d_write"
       /\ Tuple(u).s.str \notin DOMAIN indexed_value
       /\ Tuple(u).s.str \in DOMAIN new_value

\* C19: in every round x->Apply is called exactly once for each key the
\* generation has when the round starts and for no other string: a key a round
\* creates is not evaluated in that round, and is evaluated once in the next,
\* also when several units derived it.
C19_KeySnapshot ==
  phase \in {"p1", "p3"} =>
    /\ evaluated = {value_keys[j] : j \in claimed}
    /\ evaluated \subseteq DOMAIN indexed_value
    /\ Cardinality(claimed) = Cardinality(evaluated)
    /\ phase = "p3" => evaluated = DOMAIN indexed_value

\* the second round has evaluated a key that the Script did not have and that
\* two units of the first round derived: both syllables are gone
C19_Witness ==
  /\ phase = "p3" /\ round = 2
  /\ \E key \in DOMAIN indexed_value :
       /\ key \notin DOMAIN call.before
       /\ key \in evaluated
       /\ Cardinality(DOMAIN indexed_value[key]) = 2
  /\ DOMAIN indexed_value \cap DOMAIN call.before = {}

\* C20: from the start of phase 1 to the swap of lines 311-312 no step changes
\* a key, a str or the properties of the current generation, the accumulation
\* of the derivation branch included: a unit that retains a key and a unit that
\* derives from it both read the properties the round started with.
C20_SourceReadOnly ==
  [][(phase \in {"p1", "p3"} /\ phase' \in {"p1", "p3"}) =>
       /\ indexed_value' = indexed_value
       /\ value_keys' = value_keys]_vars

\* a unit has accumulated the properties of its rule into the properties of
\* every str of its key and stored them under the new key
C20_Witness ==
  /\ phase = "p3"
  /\ \E u \in DOMAIN unit :
       /\ unit[u].pc = "d_unlock_k"
       /\ Retains(Tuple(u), X)
       /\ \E xs \in DOMAIN indexed_value[Tuple(u).k] :
            /\ DeriveAccumulate(Tuple(u).s.properties, indexed_value[Tuple(u).k][xs])
                 # indexed_value[Tuple(u).k][xs]
            /\ xs \in DOMAIN new_value[Tuple(u).s.str]

====
